---- MODULE Spec2Model ----
(***************************************************************************)
(* Model of apps/telephony_app/main.py: CustomTelephonyServer, its         *)
(* greeting generator generate_prompt_preamble and the inbound webhook     *)
(* handler twilio_route built by create_inbound_route.                     *)
(*                                                                         *)
(* Text is modelled as TLA+ strings, character for character, so that the  *)
(* exact wording and spacing of a greeting is part of the model.           *)
(* An Optional value is <<>> (None) or <<v>>.                              *)
(***************************************************************************)
EXTENDS Integers, Sequences, FiniteSets, TLC

VARIABLES entry, now, inbound_call_config, route, call, issued, store, direct

vars == <<entry, now, inbound_call_config, route, call, issued, store, direct>>

(***************************************************************************)
(* Bounds                                                                  *)
(***************************************************************************)
\* number of webhook invocations that may be in flight or finished
MaxCalls == 2

Calls == 1..MaxCalls

\* conversation identifiers the generator can hand out
ConvIds == 1..MaxCalls

None == <<>>

Some(v) == <<v>>

(***************************************************************************)
(* Text helpers (Python str semantics)                                     *)
(***************************************************************************)
StartsWith(s, p) == Len(s) >= Len(p) /\ SubSeq(s, 1, Len(p)) = p

\* p occurs in s at position i (1-based)
OccursAt(s, p, i) ==
    /\ SubSeq(s, i, i) = SubSeq(p, 1, 1)
    /\ SubSeq(s, i, i + Len(p) - 1) = p

\* str.index, 1-based: the first position at which p occurs in s
Index(s, p) ==
    CHOOSE i \in 1..(Len(s) - Len(p) + 1) :
        OccursAt(s, p, i) /\ \A j \in 1..(i - 1) : ~OccursAt(s, p, j)

\* str.rindex, 1-based: the last position at which p occurs in s
RIndex(s, p) ==
    Len(s) - Len(p) + 1 -
        (CHOOSE k \in 0..(Len(s) - Len(p)) :
            /\ OccursAt(s, p, Len(s) - Len(p) + 1 - k)
            /\ \A j \in 0..(k - 1) : ~OccursAt(s, p, Len(s) - Len(p) + 1 - j))

\* the text of s that follows its first p
AfterFirst(s, p) == SubSeq(s, Index(s, p) + Len(p), Len(s))

\* the text of s that precedes its first p
BeforeFirst(s, p) == SubSeq(s, 1, Index(s, p) - 1)

\* the text of s that follows its last p
AfterLast(s, p) == SubSeq(s, RIndex(s, p) + Len(p), Len(s))

(***************************************************************************)
(* datetime: weekday and strftime('%A, %B %d, %Y')                         *)
(***************************************************************************)
IsLeap(y) == y % 4 = 0 /\ (y % 100 # 0 \/ y % 400 = 0)

DaysInMonth(y, m) ==
    IF m = 2 THEN (IF IsLeap(y) THEN 29 ELSE 28)
    ELSE IF m \in {4, 6, 9, 11} THEN 30 ELSE 31

RECURSIVE DaysBeforeMonth(_, _)
DaysBeforeMonth(y, m) ==
    IF m = 1 THEN 0 ELSE DaysBeforeMonth(y, m - 1) + DaysInMonth(y, m - 1)

DaysBeforeYear(y) ==
    (y - 1) * 365 + ((y - 1) \div 4) - ((y - 1) \div 100) + ((y - 1) \div 400)

ToOrdinal(d) == DaysBeforeYear(d.year) + DaysBeforeMonth(d.year, d.month) + d.day

\* date.weekday(): Monday is 0
Weekday(d) == (ToOrdinal(d) + 6) % 7

DayName(w) ==
    <<"Monday", "Tuesday", "Wednesday", "Thursday", "Friday", "Saturday", "Sunday">>[w + 1]

MonthName(m) ==
    <<"January", "February", "March", "April", "May", "June", "July",
      "August", "September", "October", "November", "December">>[m]

\* %d : day of the month, zero padded to two digits
Pad2(n) == IF n < 10 THEN "0" \o ToString(n) ELSE ToString(n)

\* date_now.strftime('%A, %B %d, %Y')
strftime(d) ==
    DayName(Weekday(d)) \o ", " \o MonthName(d.month) \o " " \o Pad2(d.day)
        \o ", " \o ToString(d.year)

(***************************************************************************)
(* generate_prompt_preamble                                                *)
(***************************************************************************)
Colors == {"red", "blue", "green", "yellow", "purple"}

\* color = random.choice([...]) if color is None ; rnd is the random draw
PickColor(color, rnd) == IF color = None THEN rnd ELSE color[1]

TimeOfDay_Inclusive(hour) == IF hour <= 12 THEN "morning" ELSE "afternoon"

TimeOfDay(hour) == IF hour < 12 THEN "morning" ELSE "afternoon"

\* Python truthiness of an Optional[str]
Truthy(opt) == opt # None /\ opt[1] # ""

Greeting(twilio_from) ==
    IF Truthy(twilio_from)
    THEN "Hi, thanks for calling from " \o twilio_from[1] \o ". "
    ELSE "Hi, "

generate_prompt_preamble(color, twilio_from, date_now, rnd) ==
    Greeting(twilio_from) \o " It's currently " \o TimeOfDay(date_now.hour)
        \o " on " \o strftime(date_now)
        \o ". Let me tell you facts and interesting tidbits about "
        \o PickColor(color, rnd) \o "."

(***************************************************************************)
(* Module-level objects: telephony_server and its inbound configuration    *)
(***************************************************************************)
BASE_URL == "BASE_URL"

TwilioConfigEnv == [account_sid |-> "TWILIO_ACCOUNT_SID", auth_token |-> "TWILIO_AUTH_TOKEN"]

OriginalAgentConfig ==
    [initial_message |-> "Placeholder, will be replaced dynamically",
     prompt_preamble |-> "Have a pleasant conversation about the color randomly choosed",
     generate_responses |-> TRUE]

\* TwilioCallConfig.default_transcriber_config() / default_synthesizer_config()
default_transcriber_config == "DefaultTranscriberConfig"

default_synthesizer_config == "DefaultSynthesizerConfig"

InboundCallConfig(kind, transcriber_config, synthesizer_config) ==
    [kind |-> kind, url |-> "/inbound_call/{color}", agent_config |-> OriginalAgentConfig,
     transcriber_config |-> transcriber_config, synthesizer_config |-> synthesizer_config,
     twilio_config |-> TwilioConfigEnv]

\* the inbound call configurations create_inbound_route may be handed
InboundConfigs ==
    {InboundCallConfig("TwilioInboundCallConfig", None, None),
     InboundCallConfig("TwilioInboundCallConfig", Some("CustomTranscriberConfig"),
                       Some("CustomSynthesizerConfig")),
     InboundCallConfig("VonageInboundCallConfig", None, None)}

\* wall-clock readings of datetime.now() while the server runs
ServerClocks ==
    {[year |-> 2024, month |-> 3, day |-> 4, hour |-> 9],
     [year |-> 2024, month |-> 11, day |-> 30, hour |-> 15]}

\* wall-clock readings for direct calls of the generator
DirectClocks ==
    {[year |-> y, month |-> md[1], day |-> md[2], hour |-> h] :
        y \in {2024, 2025}, md \in {<<3, 4>>, <<12, 25>>}, h \in 0..23}

\* a < b in time
Earlier(a, b) ==
    \/ a.year < b.year
    \/ a.year = b.year /\ a.month < b.month
    \/ a.year = b.year /\ a.month = b.month /\ a.day < b.day
    \/ a.year = b.year /\ a.month = b.month /\ a.day = b.day /\ a.hour < b.hour

\* webhook forms (CallSid, From, To) with the route's {color} path parameter
Requests ==
    {[CallSid |-> "CA1", From |-> "+15551234567", To |-> "+15557654321", color |-> "teal"],
     [CallSid |-> "CA2", From |-> "+15550001111", To |-> "+15557654321", color |-> "red"]}

\* outcomes of random.choice explored while the server handles webhooks
WebhookDraws == {"red", "purple"}

DirectColors == {None, Some("teal"), Some("red")}

DirectFroms == {None, Some(""), Some("+15551234567")}

ConvIdNames == {"conv-" \o ToString(n) : n \in ConvIds}

NoConfig == <<>>

IdleCall ==
    [pc |-> "idle", twilio_sid |-> "", twilio_from |-> "", twilio_to |-> "", color |-> "",
     twilio_config |-> None, date_now |-> None, dynamic_initial_message |-> "",
     call_config |-> NoConfig, conversation_id |-> "", save_calls |-> 0,
     save_outcome |-> "", result |-> None]

(***************************************************************************)
(* Initial states.  entry = "server": the module has been loaded and       *)
(* telephony_server is about to register its inbound route.                *)
(* entry = "direct": generate_prompt_preamble is called on its own, with   *)
(* arguments and a clock reading drawn from bounded sets.                  *)
(***************************************************************************)
InitServer ==
    /\ entry = "server"
    /\ now \in {t \in ServerClocks : \A u \in ServerClocks : ~Earlier(u, t)}
    /\ inbound_call_config \in InboundConfigs
    /\ route = [status |-> "pending", twilio_config |-> None]
    /\ call = [i \in Calls |-> IdleCall]
    /\ issued = {}
    /\ store = <<>>
    /\ direct = [pc |-> "off", color |-> None, twilio_from |-> None, rnd |-> "", result |-> ""]

InitDirect ==
    /\ entry = "direct"
    /\ now \in DirectClocks
    /\ inbound_call_config = InboundCallConfig("TwilioInboundCallConfig", None, None)
    /\ route = [status |-> "pending", twilio_config |-> None]
    /\ call = [i \in Calls |-> IdleCall]
    /\ issued = {}
    /\ store = <<>>
    /\ \E c \in DirectColors, f \in DirectFroms :
          direct = [pc |-> "ready", color |-> c, twilio_from |-> f, rnd |-> "", result |-> ""]

Init == InitServer \/ InitDirect

(***************************************************************************)
(* create_inbound_route                                                    *)
(***************************************************************************)
isinstance_Any(cfg, kind) == TRUE

isinstance(cfg, kind) == cfg.kind = kind

\* the value create_inbound_route yields for cfg: a handler, or a raise
create_inbound_route(cfg) ==
    IF isinstance(cfg, "TwilioInboundCallConfig")
    THEN [status |-> "handler", twilio_config |-> Some(cfg.twilio_config)]
    ELSE [status |-> "ValueError", twilio_config |-> None]

CreateInboundRoute ==
    /\ entry = "server"
    /\ route.status = "pending"
    /\ route' = create_inbound_route(inbound_call_config)
    /\ UNCHANGED <<entry, now, inbound_call_config, call, issued, store, direct>>

(***************************************************************************)
(* twilio_route                                                            *)
(***************************************************************************)
\* inbound_call_config.agent_config.initial_message = BaseMessage(text=msg)
SetInitialMessage_Skip(cfg, msg) == cfg

SetInitialMessage_NewAgent(cfg, msg) ==
    [cfg EXCEPT !.agent_config =
        [initial_message |-> msg, prompt_preamble |-> "", generate_responses |-> TRUE]]

SetInitialMessage(cfg, msg) == [cfg EXCEPT !.agent_config.initial_message = msg]

\* x or default
OrElse(opt, default) == IF opt # None THEN opt[1] ELSE default

TwilioCallConfig_Swapped(cfg, twilio_config, twilio_sid, twilio_from, twilio_to) ==
    [transcriber_config |-> OrElse(cfg.transcriber_config, default_transcriber_config),
     agent_config |-> cfg.agent_config,
     synthesizer_config |-> OrElse(cfg.synthesizer_config, default_synthesizer_config),
     twilio_config |-> twilio_config,
     twilio_sid |-> twilio_sid,
     from_phone |-> twilio_to,
     to_phone |-> twilio_from]

TwilioCallConfig(cfg, twilio_config, twilio_sid, twilio_from, twilio_to) ==
    [transcriber_config |-> OrElse(cfg.transcriber_config, default_transcriber_config),
     agent_config |-> cfg.agent_config,
     synthesizer_config |-> OrElse(cfg.synthesizer_config, default_synthesizer_config),
     twilio_config |-> twilio_config,
     twilio_sid |-> twilio_sid,
     from_phone |-> twilio_from,
     to_phone |-> twilio_to]

\* create_conversation_id(): an identifier that has not been issued before.
\* Identifiers are opaque tokens, so which unissued one is handed out is
\* immaterial; they are handed out in the order of their index.
create_conversation_id(used) ==
    {"conv-" \o ToString(n) :
        n \in {k \in ConvIds : /\ ("conv-" \o ToString(k)) \notin used
                               /\ \A j \in 1..(k - 1) : ("conv-" \o ToString(j)) \in used}}

\* the key twilio_route passes to save_config
SaveKey_Sid(conversation_id, call_config) == call_config.twilio_sid

SaveKey(conversation_id, call_config) == conversation_id

\* config_manager.save_config(key, config) on a store that accepts the write
save_config(st, key, config) ==
    [k \in (DOMAIN st) \cup {key} |-> IF k = key THEN config ELSE st[k]]

get_connection_twiml(base_url, call_id) ==
    [kind |-> "twiml", base_url |-> base_url, call_id |-> call_id, error |-> ""]

StoreErrors == {"ConnectionError"}

\* what twilio_route yields once the awaited save_config has finished
RouteResult_Swallow(outcome, conversation_id) == get_connection_twiml(BASE_URL, conversation_id)

RouteResult(outcome, conversation_id) ==
    IF outcome = "ok"
    THEN get_connection_twiml(BASE_URL, conversation_id)
    ELSE [kind |-> "raise", base_url |-> "", call_id |-> "", error |-> outcome]

\* the color argument of twilio_route's call of generate_prompt_preamble
\* (omitted); path_color is the value of the route's {color} parameter
RouteTopic_Path(path_color) == Some(path_color)

RouteTopic(path_color) == None

\* The webhook arrives and the handler runs to the end of its call of
\* generate_prompt_preamble.  The handler awaits that call, so the model lets
\* other invocations run before the handler goes on.
twilio_route_generate(i) ==
    /\ entry = "server"
    /\ route.status = "handler"
    /\ call[i].pc = "idle"
    /\ \A j \in 1..(i - 1) : call[j].pc # "idle"
    /\ \E req \in Requests, rnd \in WebhookDraws :
          call' = [call EXCEPT ![i] =
              [@ EXCEPT !.pc = "generated",
                        !.twilio_sid = req.CallSid,
                        !.twilio_from = req.From,
                        !.twilio_to = req.To,
                        !.color = req.color,
                        !.twilio_config = route.twilio_config,
                        !.date_now = Some(now),
                        !.dynamic_initial_message =
                            generate_prompt_preamble(RouteTopic(req.color), Some(req.From),
                                                     now, rnd)]]
    /\ UNCHANGED <<entry, now, inbound_call_config, route, issued, store, direct>>

\* From the assignment of the initial message to the point where save_config
\* has been handed the CallConfiguration: no await lies in between, so this is
\* one step.  call_config is the configuration as handed to the store.
twilio_route_build(i) ==
    /\ call[i].pc = "generated"
    /\ \E id \in create_conversation_id(issued) :
          LET cfg == SetInitialMessage(inbound_call_config, call[i].dynamic_initial_message)
              cc  == TwilioCallConfig(cfg, call[i].twilio_config[1], call[i].twilio_sid,
                                      call[i].twilio_from, call[i].twilio_to)
          IN  /\ inbound_call_config' = cfg
              /\ issued' = issued \cup {id}
              /\ call' = [call EXCEPT ![i] =
                    [@ EXCEPT !.pc = "saving",
                              !.call_config = Some(cc),
                              !.conversation_id = id,
                              !.save_calls = @ + 1]]
    /\ UNCHANGED <<entry, now, route, store, direct>>

\* the config store performs the write, save_config returns and the handler
\* finishes with the connection instructions
save_config_ok(i) ==
    /\ call[i].pc = "saving"
    /\ store' = save_config(store, SaveKey(call[i].conversation_id, call[i].call_config[1]),
                            call[i].call_config[1])
    /\ call' = [call EXCEPT ![i] =
          [@ EXCEPT !.pc = "done", !.save_outcome = "ok",
                    !.result = Some(RouteResult("ok", call[i].conversation_id))]]
    /\ UNCHANGED <<entry, now, inbound_call_config, route, issued, direct>>

\* a handler that tries the save again after a failure
save_config_raise_Retry(i) ==
    /\ call[i].pc = "saving"
    /\ call[i].save_calls < 2
    /\ call' = [call EXCEPT ![i] = [@ EXCEPT !.save_calls = @ + 1]]
    /\ UNCHANGED <<entry, now, inbound_call_config, route, issued, store, direct>>

\* the config store fails, save_config raises and the handler finishes
save_config_raise(i) ==
    /\ call[i].pc = "saving"
    /\ \E e \in StoreErrors :
          call' = [call EXCEPT ![i] =
              [@ EXCEPT !.pc = "done", !.save_outcome = e,
                        !.result = Some(RouteResult(e, call[i].conversation_id))]]
    /\ UNCHANGED <<entry, now, inbound_call_config, route, issued, store, direct>>

\* wall-clock time passes
Tick ==
    /\ entry = "server"
    /\ \E t \in ServerClocks : Earlier(now, t) /\ now' = t
    /\ UNCHANGED <<entry, inbound_call_config, route, call, issued, store, direct>>

\* generate_prompt_preamble called on its own
GeneratePromptPreamble ==
    /\ entry = "direct"
    /\ direct.pc = "ready"
    /\ \E rnd \in Colors :
          direct' = [direct EXCEPT !.pc = "done", !.rnd = rnd,
                        !.result = generate_prompt_preamble(direct.color, direct.twilio_from,
                                                            now, rnd)]
    /\ UNCHANGED <<entry, now, inbound_call_config, route, call, issued, store>>

Next ==
    \/ CreateInboundRoute
    \/ \E i \in Calls : twilio_route_generate(i)
    \/ \E i \in Calls : twilio_route_build(i)
    \/ \E i \in Calls : save_config_ok(i)
    \/ \E i \in Calls : save_config_raise(i)
    \/ Tick
    \/ GeneratePromptPreamble

Spec == Init /\ [][Next]_vars

(***************************************************************************)
(* Properties                                                              *)
(***************************************************************************)
\* the handler of invocation i has built its CallConfiguration
Built(i) == call[i].pc \in {"saving", "done"}

Finished(i) == call[i].pc = "done"

\* invocation i has returned connection instructions
Returned(i) == Finished(i) /\ call[i].result[1].kind = "twiml"

\* invocation i has ended with an exception
Raised(i) == Finished(i) /\ call[i].result[1].kind = "raise"

\* the text between "It's currently " and the next " on " of a greeting
TimeOfDayToken(g) == BeforeFirst(AfterFirst(g, "It's currently "), " on ")

\* the text between the last "tidbits about " and the final full stop
TopicToken(g) == AfterLast(SubSeq(g, 1, Len(g) - 1), "tidbits about ")

\* the greetings produced so far: <<caller number, clock reading, text>>
Greetings ==
    {<<Some(call[i].twilio_from), call[i].date_now[1], call[i].dynamic_initial_message>> :
        i \in {j \in Calls : call[j].pc # "idle"}}
    \cup (IF direct.pc = "done" THEN {<<direct.twilio_from, now, direct.result>>} ELSE {})

\* C1: all invocations save under pairwise different conversation
\* identifiers, also when their caller and callee numbers are identical, and
\* the entry an invocation wrote stays in the store, as written, under its
\* identifier.
C1_DistinctConversationIds ==
    /\ \A i, j \in Calls :
          (i # j /\ Built(i) /\ Built(j)) => call[i].conversation_id # call[j].conversation_id
    /\ \A i \in Calls :
          Returned(i) =>
             /\ call[i].conversation_id \in DOMAIN store
             /\ store[call[i].conversation_id] = call[i].call_config[1]

C1_Witness ==
    /\ Returned(1) /\ Returned(2)
    /\ call[1].twilio_from = call[2].twilio_from
    /\ call[1].twilio_to = call[2].twilio_to
    /\ call[1].twilio_sid = call[2].twilio_sid
    /\ {call[1].conversation_id, call[2].conversation_id} \subseteq DOMAIN store

\* C2: an invocation calls save_config exactly once: never before it has
\* built its CallConfiguration, once from then on, never twice; and the store
\* holds exactly one entry for each invocation that returned.
C2_ExactlyOneSave ==
    /\ \A i \in Calls : call[i].save_calls = (IF Built(i) THEN 1 ELSE 0)
    /\ Cardinality(DOMAIN store) = Cardinality({i \in Calls : Returned(i)})
    /\ \A i \in Calls : Returned(i) => call[i].conversation_id \in DOMAIN store

C2_Witness ==
    /\ \A i \in {1, 2} : Returned(i)
    /\ Cardinality(DOMAIN store) = Cardinality({i \in Calls : Returned(i)})
    /\ Cardinality(DOMAIN store) >= 2

\* a configuration with the agent's initial message blanked out
WithoutInitialMessage(cfg) == [cfg EXCEPT !.agent_config.initial_message = ""]

\* C3 (as stated): no step changes the inbound-call configuration registered
\* with the route.
C3_ConfigNeverChanges == [][inbound_call_config' = inbound_call_config]_vars

\* C3 (amended): a step changes nothing of the registered inbound-call
\* configuration but the agent settings' initial message, and a registered
\* route is never changed.
C3_OnlyInitialMessageChanges ==
    [][/\ WithoutInitialMessage(inbound_call_config') = WithoutInitialMessage(inbound_call_config)
       /\ (route.status # "pending" => route' = route)]_vars

C3_Witness ==
    /\ \E i \in Calls : Returned(i)
            /\ inbound_call_config.agent_config.initial_message = call[i].dynamic_initial_message
    /\ inbound_call_config.agent_config.initial_message # OriginalAgentConfig.initial_message

\* C4: connection instructions for identifier c are the result only of an
\* invocation whose save_config(c, config) succeeded (the entry is in the
\* store); an invocation whose save failed ends with that same error, made
\* one save attempt and left no entry.
C4_InstructionsOnlyAfterSave ==
    \A i \in Calls :
        /\ Returned(i) =>
              /\ call[i].save_outcome = "ok"
              /\ call[i].result[1] = get_connection_twiml(BASE_URL, call[i].conversation_id)
              /\ call[i].conversation_id \in DOMAIN store
        /\ (Finished(i) /\ call[i].save_outcome # "ok") =>
              /\ call[i].result[1].kind = "raise"
              /\ call[i].result[1].error = call[i].save_outcome
              /\ call[i].result[1].call_id = ""
              /\ call[i].save_calls = 1
              /\ call[i].conversation_id \notin DOMAIN store

C4_Witness ==
    \E i, j \in Calls : Raised(i) /\ call[i].save_outcome \in StoreErrors /\ Returned(j)

\* C5: once create_inbound_route has run, a configuration that is not a
\* TwilioInboundCallConfig has produced a ValueError and no handler, nothing
\* is in the store and the configuration is as it was given; a
\* TwilioInboundCallConfig has produced a handler bound to its credentials.
C5_UnsupportedConfigFails ==
    route.status # "pending" =>
        IF inbound_call_config.kind = "TwilioInboundCallConfig"
        THEN route = [status |-> "handler", twilio_config |-> Some(inbound_call_config.twilio_config)]
        ELSE /\ route = [status |-> "ValueError", twilio_config |-> None]
             /\ store = <<>>
             /\ inbound_call_config \in InboundConfigs
             /\ \A i \in Calls : call[i] = IdleCall

C5_Witness == route.status = "ValueError" /\ inbound_call_config.kind = "VonageInboundCallConfig"

\* C6: a built or saved CallConfiguration has the inbound configuration's
\* transcription and synthesis settings when present and the defaults
\* otherwise, the invocation's credentials and call/caller/callee
\* identifiers, and agent settings equal to the original ones in all but the
\* initial message; no step changes the inbound configuration's
\* transcription and synthesis settings.
C6_State ==
    \A i \in Calls :
        Built(i) =>
            LET cc == call[i].call_config[1] IN
            /\ cc.transcriber_config =
                  (IF inbound_call_config.transcriber_config = None
                   THEN default_transcriber_config
                   ELSE inbound_call_config.transcriber_config[1])
            /\ cc.synthesizer_config =
                  (IF inbound_call_config.synthesizer_config = None
                   THEN default_synthesizer_config
                   ELSE inbound_call_config.synthesizer_config[1])
            /\ cc.twilio_config = TwilioConfigEnv
            /\ cc.twilio_sid = call[i].twilio_sid
            /\ cc.from_phone = call[i].twilio_from
            /\ cc.to_phone = call[i].twilio_to
            /\ [cc.agent_config EXCEPT !.initial_message = OriginalAgentConfig.initial_message]
                  = OriginalAgentConfig
            /\ Returned(i) => store[call[i].conversation_id] = cc

C6_SavedConfigFields ==
    /\ []C6_State
    /\ [][/\ inbound_call_config'.transcriber_config = inbound_call_config.transcriber_config
          /\ inbound_call_config'.synthesizer_config = inbound_call_config.synthesizer_config]_vars

C6_Witness ==
    \E i \in Calls :
        /\ Returned(i)
        /\ inbound_call_config.transcriber_config # None
        /\ store[call[i].conversation_id].synthesizer_config = "CustomSynthesizerConfig"
        /\ store[call[i].conversation_id].from_phone # store[call[i].conversation_id].to_phone

\* the greeting of the specification for caller number n at clock reading d
SpecGreeting(n, d, topic) ==
    "Hi, thanks for calling from " \o n \o ". It's currently "
        \o (IF d.hour < 12 THEN "morning" ELSE "afternoon")
        \o " on " \o strftime(d)
        \o ". Let me tell you facts and interesting tidbits about " \o topic \o "."

\* C7: every greeting produced for a call with a caller number is the text
\* "Hi, thanks for calling from N. It's currently {time-of-day} on {date}.
\* Let me tell you facts and interesting tidbits about {topic}." with one
\* space between the opener sentence and "It's currently".
C7_GreetingText ==
    \A g \in Greetings :
        Truthy(g[1]) =>
            \E topic \in Colors \cup {c[1] : c \in DirectColors \ {None}} :
                g[3] = SpecGreeting(g[1][1], g[2], topic)

\* C8: a greeting generated with a topic names that topic, one generated
\* without a topic names one of the five colours, and the greeting of every
\* saved CallConfiguration names one of the five colours whatever the
\* route's {color} parameter is.
C8_TopicToken ==
    /\ direct.pc = "done" =>
          IF direct.color # None
          THEN TopicToken(direct.result) = direct.color[1]
          ELSE TopicToken(direct.result) \in Colors
    /\ \A k \in DOMAIN store : TopicToken(store[k].agent_config.initial_message) \in Colors

C8_Witness ==
    \E i \in Calls :
        /\ Returned(i)
        /\ call[i].color = "teal"
        /\ TopicToken(store[call[i].conversation_id].agent_config.initial_message) = "purple"

\* C9: the time-of-day token of every greeting is "morning" when the clock
\* hour read by the generator is below 12 and "afternoon" when it is 12 or
\* above, and is never anything else.
C9_TimeOfDay ==
    \A g \in Greetings :
        \A tok \in {TimeOfDayToken(g[3])} :
            /\ tok \in {"morning", "afternoon"}
            /\ tok = "morning" <=> g[2].hour < 12
            /\ tok = "afternoon" <=> g[2].hour >= 12

C9_Witness ==
    /\ direct.pc = "done"
    /\ now.hour = 12
    /\ TimeOfDayToken(direct.result) = "afternoon"

\* C10: the CallConfiguration an invocation builds, and the one stored under
\* its conversation identifier, carries the greeting generated by that
\* invocation for its own caller number, in every state, whatever other
\* invocations have written to the shared agent settings since.
C10_OwnGreetingStored ==
    \A i \in Calls :
        Built(i) =>
            /\ call[i].call_config[1].agent_config.initial_message
                  = call[i].dynamic_initial_message
            /\ StartsWith(call[i].dynamic_initial_message,
                          "Hi, thanks for calling from " \o call[i].twilio_from \o ". ")
            /\ Returned(i) =>
                  store[call[i].conversation_id].agent_config.initial_message
                      = call[i].dynamic_initial_message

C10_Witness ==
    \E i, j \in Calls :
        /\ Returned(i) /\ Returned(j)
        /\ call[i].twilio_from # call[j].twilio_from
        /\ inbound_call_config.agent_config.initial_message = call[j].dynamic_initial_message
        /\ store[call[i].conversation_id].agent_config.initial_message
              # inbound_call_config.agent_config.initial_message
        /\ StartsWith(store[call[i].conversation_id].agent_config.initial_message,
                      "Hi, thanks for calling from " \o call[i].twilio_from \o ". ")

TypeOK ==
    /\ entry \in {"server", "direct"}
    /\ \A i \in Calls : call[i].pc \in {"idle", "generated", "saving", "done"}
    /\ issued \subseteq ConvIdNames

====
